---- MODULE Spec2Model ----
(***************************************************************************)
(* Expression<T>: a symbolic-expression engine over a scalar type T.       *)
(* Nodes live in an arena (`nodes`); a node's index is its identity (the   *)
(* address a shared_ptr<Node> holds), 0 is nullptr.  An Expression handle  *)
(* is a root index.  Every public member function is one action.           *)
(***************************************************************************)
EXTENDS Integers, Sequences, FiniteSets

VARIABLES T, nodes, last

vars == <<T, nodes, last>>

\* ------------------------------------------------------------------ bounds
\* Builder calls are issued while the arena holds fewer than MaxNodes nodes;
\* evaluate, derivative, substitute, toString and the predicates while it
\* holds at most MaxNodes.
MaxNodes == 3

\* The two explicit instantiations of the template.
ScalarTypes == {"double", "complex"}
\* Variable names used for leaves, derivative and substitute.
Names == {"x", "y"}
\* Scalars handed to Expression(T value) and pow(base, T exponent).
CtorInts == {1, 2}
\* Scalars bound to names in evaluate's map.
BindInts == {0, 3}

\* ----------------------------------------------------------------- scalars
\* A scalar of type T.  Small integers (Gaussian integers for complex) are
\* exact in floating point and are kept as numbers, a zero part being +0.
\* Every other result of the scalar library (an inexact or non-finite value,
\* a value past ExactLimit, a zero that may be -0) is kept as the term that
\* produced it, which determines it.
Num(re, im) == [k |-> "num", re |-> re, im |-> im, args |-> <<>>]

Sym(f, a) == [k |-> f, re |-> 0, im |-> 0, args |-> a]

IsNum(s) == s.k = "num"

\* T(n) for an integer literal n.
TOf(n) == Num(n, 0)

\* A member `T value` no constructor initialises: indeterminate for double,
\* zero for std::complex<double> (its default constructor).
Uninit == IF T = "double" THEN Sym("indeterminate", <<>>) ELSE Num(0, 0)

Abs(n) == IF n < 0 THEN -n ELSE n

\* Integers up to ExactLimit in magnitude are computed exactly (they are far
\* below 2^53 and print without an exponent); a larger result is kept as a term.
ExactLimit == 10000

Fits(n) == Abs(n) <= ExactLimit

NumOr(re, im, term) == IF Fits(re) /\ Fits(im) THEN Num(re, im) ELSE term

\* The parts a value of type T has: a double has no imaginary part.
HasZeroPart(a) == a.re = 0 \/ (T = "complex" /\ a.im = 0)

HasNegativePart(a) == a.re < 0 \/ a.im < 0

Divides(d, n) == d # 0 /\ Abs(n) % Abs(d) = 0

ExactDiv(n, d) == IF (n < 0) = (d < 0) THEN Abs(n) \div Abs(d) ELSE -(Abs(n) \div Abs(d))

\* acc * a^n for n >= 0 and |a| >= 2, stopping once the magnitude has passed
\* ExactLimit.
RECURSIVE IPowFrom(_, _, _)
IPowFrom(acc, a, n) ==
    IF n = 0 \/ ~Fits(acc) THEN acc ELSE IPowFrom(acc * a, a, n - 1)

\* a^n for n >= 0, or a magnitude past ExactLimit when a^n is.
IPow(a, n) ==
    IF n = 0 THEN 1
    ELSE IF a = 0 THEN 0
    ELSE IF a = 1 THEN 1
    ELSE IF a = -1 THEN (IF n % 2 = 0 THEN 1 ELSE -1)
    ELSE IPowFrom(1, a, n)

SAdd(a, b) ==
    IF IsNum(a) /\ IsNum(b)
    THEN NumOr(a.re + b.re, a.im + b.im, Sym("+", <<a, b>>))
    ELSE Sym("+", <<a, b>>)

SSub(a, b) ==
    IF IsNum(a) /\ IsNum(b)
    THEN NumOr(a.re - b.re, a.im - b.im, Sym("-", <<a, b>>))
    ELSE Sym("-", <<a, b>>)

\* A zero product with a negative factor may be -0.  z * 1 = z and 1 * z = z
\* hold for every floating-point z.
SMul(a, b) ==
    IF IsNum(a) /\ IsNum(b)
    THEN LET p == Num(a.re * b.re - a.im * b.im, a.re * b.im + a.im * b.re) IN
         IF HasZeroPart(p) /\ (HasNegativePart(a) \/ HasNegativePart(b))
         THEN Sym("*", <<a, b>>)
         ELSE NumOr(p.re, p.im, Sym("*", <<a, b>>))
    ELSE IF b = TOf(1) THEN a
    ELSE IF a = TOf(1) THEN b
    ELSE Sym("*", <<a, b>>)

\* Exact when the quotient is an integer (for complex: a real divisor that
\* divides both parts) and no part of it can be -0; division by zero and
\* inexact quotients stay terms.
SDiv(a, b) ==
    IF /\ IsNum(a) /\ IsNum(b)
       /\ b.im = 0 /\ Divides(b.re, a.re) /\ Divides(b.re, a.im)
       /\ (b.re > 0 \/ ~HasZeroPart(a))
    THEN Num(ExactDiv(a.re, b.re), ExactDiv(a.im, b.re))
    ELSE Sym("/", <<a, b>>)

\* std::pow(double, double) is exact on small integers with an exponent >= 0
\* and on base +-1; std::pow(complex, complex) goes through exp and log.
SPow(a, b) ==
    IF T = "double" /\ IsNum(a) /\ IsNum(b)
    THEN IF b.re >= 0 THEN NumOr(IPow(a.re, b.re), 0, Sym("pow", <<a, b>>))
         ELSE IF a.re = 1 THEN Num(1, 0)
         ELSE IF a.re = -1 THEN Num(IF b.re % 2 = 0 THEN 1 ELSE -1, 0)
         ELSE Sym("pow", <<a, b>>)
    ELSE Sym("pow", <<a, b>>)

SSin(a) == IF a = TOf(0) THEN TOf(0) ELSE Sym("sin", <<a>>)

\* cos(0.0) is 1; the complex cosine of 0 has imaginary part -0.
SCos(a) == IF a = TOf(0) /\ T = "double" THEN TOf(1) ELSE Sym("cos", <<a>>)

SExp(a) == IF a = TOf(0) THEN TOf(1) ELSE Sym("exp", <<a>>)

SLog(a) == IF a = TOf(1) THEN TOf(0) ELSE Sym("log", <<a>>)

\* The negation of a zero part is -0.
SNeg(a) ==
    IF IsNum(a) /\ ~HasZeroPart(a) THEN Num(-a.re, IF T = "double" THEN 0 ELSE -a.im)
    ELSE Sym("neg", <<a>>)

\* ------------------------------------------------------------------- nodes
BinaryTypes == {"ADD", "SUBTRACT", "MULTIPLY", "DIVIDE", "POWER"}

UnaryTypes == {"SIN", "COS", "EXP", "LOG", "NEGATE"}

\* Node(Type t, T val)
NodeValue(t, val) ==
    [type |-> t, value |-> val, variable |-> "", left |-> 0, right |-> 0]

\* Node(Type t, string var)
NodeVariable(t, var) ==
    [type |-> t, value |-> Uninit, variable |-> var, left |-> 0, right |-> 0]

\* Node(Type t, shared_ptr<Node> l, shared_ptr<Node> r)
NodeBinary(t, l, r) ==
    [type |-> t, value |-> Uninit, variable |-> "", left |-> l, right |-> r]

\* Mutation: the operand of a unary node is stored as its right child.
NodeUnaryOnRight(t, l) ==
    [type |-> t, value |-> Uninit, variable |-> "", left |-> 0, right |-> l]

\* Node(Type t, shared_ptr<Node> l)
NodeUnary(t, l) ==
    [type |-> t, value |-> Uninit, variable |-> "", left |-> l, right |-> 0]

\* make_shared<Node>(...): the arena after the allocation and the new address.
make_shared(h, n) == [h |-> Append(h, n), r |-> Len(h) + 1]

\* ---------------------------------------------------------------- isConstant
RECURSIVE isConstant(_, _)
\* Mutation: a binary node counts as constant when either child is.
isConstantEither(h, root) ==
    LET n == h[root] IN
    CASE n.type = "CONSTANT" -> TRUE
      [] n.type = "VARIABLE" -> FALSE
      [] n.type \in BinaryTypes -> isConstant(h, n.left) \/ isConstant(h, n.right)
      [] n.type \in UnaryTypes -> isConstant(h, n.left)
      [] OTHER -> FALSE

\* Mutation: only a Constant leaf counts as constant (no recursion).
isConstantLeafOnly(h, root) == h[root].type = "CONSTANT"

isConstant(h, root) ==
    LET n == h[root] IN
    CASE n.type = "CONSTANT" -> TRUE
      [] n.type = "VARIABLE" -> FALSE
      [] n.type \in BinaryTypes -> isConstant(h, n.left) /\ isConstant(h, n.right)
      [] n.type \in UnaryTypes -> isConstant(h, n.left)
      [] OTHER -> FALSE

isVariable(h, root) == h[root].type = "VARIABLE"

isVariableNamed(h, root, var) == h[root].type = "VARIABLE" /\ h[root].variable = var

\* ------------------------------------------------------------------ evaluate
\* map<string, T>: a function from the bound names to scalars.
EmptyMap == [q \in {} |-> TOf(0)]

Returned(v) == [ok |-> TRUE, val |-> v, err |-> ""]

\* Mutation: an unbound name reads as T() (what map::operator[] would give).
UnboundReadsZero == [ok |-> TRUE, val |-> TOf(0), err |-> ""]

\* runtime_error("Undefined variable: " + name).  The name that ends the
\* message is the first unbound leaf met, which depends on the order the
\* compiler evaluates the two operands in; only the fixed part is kept.
UndefinedVariable == [ok |-> FALSE, val |-> TOf(0), err |-> "Undefined variable"]

Apply2(t, a, b) ==
    CASE t = "ADD" -> SAdd(a, b)
      [] t = "SUBTRACT" -> SSub(a, b)
      [] t = "MULTIPLY" -> SMul(a, b)
      [] t = "DIVIDE" -> SDiv(a, b)
      [] t = "POWER" -> SPow(a, b)

Apply1(t, a) ==
    CASE t = "SIN" -> SSin(a)
      [] t = "COS" -> SCos(a)
      [] t = "EXP" -> SExp(a)
      [] t = "LOG" -> SLog(a)
      [] t = "NEGATE" -> SNeg(a)

RECURSIVE evaluate(_, _, _)
evaluate(h, root, variables) ==
    LET n == h[root] IN
    CASE n.type = "CONSTANT" -> Returned(n.value)
      [] n.type = "VARIABLE" ->
            IF n.variable \in DOMAIN variables
            THEN Returned(variables[n.variable])
            ELSE UndefinedVariable
      [] n.type \in BinaryTypes ->
            LET l == evaluate(h, n.left, variables)
                r == evaluate(h, n.right, variables)
            IN IF ~l.ok THEN l
               ELSE IF ~r.ok THEN r
               ELSE Returned(Apply2(n.type, l.val, r.val))
      [] n.type \in UnaryTypes ->
            LET l == evaluate(h, n.left, variables)
            IN IF ~l.ok THEN l ELSE Returned(Apply1(n.type, l.val))
      [] OTHER -> Returned(TOf(0))

\* ---------------------------------------------------------------- derivative
Made(a) == [ok |-> TRUE, h |-> a.h, r |-> a.r, err |-> ""]

\* An exception unwinds the recursion; the nodes made so far lose their last
\* owner and the caller gets no node.
Thrown(h, e) == [ok |-> FALSE, h |-> h, r |-> 0, err |-> e]

NotImplemented == "Derivative of non-constant exponents not implemented"

\* Mutation: the second term multiplies the two derivatives.
ProductRuleBothDerived(h, u, v, du, dv) ==
    LET term1 == make_shared(h, NodeBinary("MULTIPLY", du, v))
        term2 == make_shared(term1.h, NodeBinary("MULTIPLY", du, dv))
    IN make_shared(term2.h, NodeBinary("ADD", term1.r, term2.r))

\* (uv)' = u'v + uv'
ProductRule(h, u, v, du, dv) ==
    LET term1 == make_shared(h, NodeBinary("MULTIPLY", du, v))
        term2 == make_shared(term1.h, NodeBinary("MULTIPLY", u, dv))
    IN make_shared(term2.h, NodeBinary("ADD", term1.r, term2.r))

\* Mutation: the denominator is v raised to itself, not to the constant 2.
QuotientRuleSelfPower(h, u, v, du, dv) ==
    LET num1 == make_shared(h, NodeBinary("MULTIPLY", du, v))
        num2 == make_shared(num1.h, NodeBinary("MULTIPLY", u, dv))
        numerator == make_shared(num2.h, NodeBinary("SUBTRACT", num1.r, num2.r))
        denominator == make_shared(numerator.h, NodeBinary("POWER", v, v))
    IN make_shared(denominator.h, NodeBinary("DIVIDE", numerator.r, denominator.r))

\* (u/v)' = (u'v - uv')/v^2
QuotientRule(h, u, v, du, dv) ==
    LET num1 == make_shared(h, NodeBinary("MULTIPLY", du, v))
        num2 == make_shared(num1.h, NodeBinary("MULTIPLY", u, dv))
        numerator == make_shared(num2.h, NodeBinary("SUBTRACT", num1.r, num2.r))
        two == make_shared(numerator.h, NodeValue("CONSTANT", TOf(2)))
        denominator == make_shared(two.h, NodeBinary("POWER", v, two.r))
    IN make_shared(denominator.h, NodeBinary("DIVIDE", numerator.r, denominator.r))

\* Mutation: the new exponent is n itself.
ExponentKept(n) == n

\* n - T(1), the exponent of u^(n-1)
ExponentMinusOne(n) == SSub(n, TOf(1))

RECURSIVE derivative(_, _, _)
derivative(h, node, variable) ==
    LET n == h[node] IN
    CASE n.type = "CONSTANT" -> Made(make_shared(h, NodeValue("CONSTANT", TOf(0))))
      [] n.type = "VARIABLE" ->
            Made(make_shared(h, NodeValue("CONSTANT",
                    IF n.variable = variable THEN TOf(1) ELSE TOf(0))))
      [] n.type \in {"ADD", "SUBTRACT"} ->
            LET dl == derivative(h, n.left, variable) IN
            IF ~dl.ok THEN dl ELSE
            LET dr == derivative(dl.h, n.right, variable) IN
            IF ~dr.ok THEN dr ELSE
            Made(make_shared(dr.h, NodeBinary(n.type, dl.r, dr.r)))
      [] n.type = "MULTIPLY" ->
            LET u == n.left
                v == n.right
                du == derivative(h, u, variable)
            IN IF ~du.ok THEN du ELSE
            LET dv == derivative(du.h, v, variable) IN
            IF ~dv.ok THEN dv ELSE
            Made(ProductRule(dv.h, u, v, du.r, dv.r))
      [] n.type = "DIVIDE" ->
            LET u == n.left
                v == n.right
                du == derivative(h, u, variable)
            IN IF ~du.ok THEN du ELSE
            LET dv == derivative(du.h, v, variable) IN
            IF ~dv.ok THEN dv ELSE
            Made(QuotientRule(dv.h, u, v, du.r, dv.r))
      [] n.type = "POWER" ->
            LET u == n.left
                v == n.right
            IN IF isConstant(h, v)
               THEN LET e == evaluate(h, v, EmptyMap) IN
                    IF ~e.ok THEN Thrown(h, e.err) ELSE
                    LET term1 == make_shared(h, NodeValue("CONSTANT", e.val))
                        nm1 == make_shared(term1.h,
                                    NodeValue("CONSTANT", ExponentMinusOne(e.val)))
                        term2 == make_shared(nm1.h, NodeBinary("POWER", u, nm1.r))
                        term3 == derivative(term2.h, u, variable)
                    IN IF ~term3.ok THEN term3 ELSE
                       LET part == make_shared(term3.h,
                                        NodeBinary("MULTIPLY", term1.r, term2.r))
                       IN Made(make_shared(part.h,
                                    NodeBinary("MULTIPLY", part.r, term3.r)))
               ELSE Thrown(h, NotImplemented)
      [] n.type = "SIN" ->
            LET u == n.left
                cos_u == make_shared(h, NodeUnary("COS", u))
                du == derivative(cos_u.h, u, variable)
            IN IF ~du.ok THEN du ELSE
               Made(make_shared(du.h, NodeBinary("MULTIPLY", cos_u.r, du.r)))
      [] n.type = "COS" ->
            LET u == n.left
                sin_u == make_shared(h, NodeUnary("SIN", u))
                neg_sin == make_shared(sin_u.h, NodeUnary("NEGATE", sin_u.r))
                du == derivative(neg_sin.h, u, variable)
            IN IF ~du.ok THEN du ELSE
               Made(make_shared(du.h, NodeBinary("MULTIPLY", neg_sin.r, du.r)))
      [] n.type = "EXP" ->
            LET u == n.left
                exp_u == make_shared(h, NodeUnary("EXP", u))
                du == derivative(exp_u.h, u, variable)
            IN IF ~du.ok THEN du ELSE
               Made(make_shared(du.h, NodeBinary("MULTIPLY", exp_u.r, du.r)))
      [] n.type = "LOG" ->
            LET u == n.left
                du == derivative(h, u, variable)
            IN IF ~du.ok THEN du ELSE
               Made(make_shared(du.h, NodeBinary("DIVIDE", du.r, u)))
      [] n.type = "NEGATE" ->
            LET u == n.left
                du == derivative(h, u, variable)
            IN IF ~du.ok THEN du ELSE
               Made(make_shared(du.h, NodeUnary("NEGATE", du.r)))
      [] OTHER -> Made(make_shared(h, NodeValue("CONSTANT", TOf(0))))

\* ---------------------------------------------------------------- substitute
\* Returns the arena after the call and the root of the returned Expression.
RECURSIVE substitute(_, _, _, _)
\* Mutation: a matching leaf gets a fresh copy of the replacement's root.
substituteCopying(h, root, variable, value) ==
    LET n == h[root] IN
    IF n.type = "VARIABLE" /\ n.variable = variable
    THEN make_shared(h, h[value])
    ELSE LET sl == IF n.left # 0 THEN substitute(h, n.left, variable, value)
                   ELSE [h |-> h, r |-> 0]
             sr == IF n.right # 0 THEN substitute(sl.h, n.right, variable, value)
                   ELSE [h |-> sl.h, r |-> 0]
         IN IF sl.r = 0 /\ sr.r = 0
            THEN [h |-> sr.h, r |-> root]
            ELSE make_shared(sr.h,
                    NodeBinary(n.type,
                               IF sl.r # 0 THEN sl.r ELSE n.left,
                               IF sr.r # 0 THEN sr.r ELSE n.right))

\* Mutation: every Variable leaf is replaced, whatever its name.
substituteAnyVariable(h, root, variable, value) ==
    LET n == h[root] IN
    IF n.type = "VARIABLE"
    THEN [h |-> h, r |-> value]
    ELSE LET sl == IF n.left # 0 THEN substitute(h, n.left, variable, value)
                   ELSE [h |-> h, r |-> 0]
             sr == IF n.right # 0 THEN substitute(sl.h, n.right, variable, value)
                   ELSE [h |-> sl.h, r |-> 0]
         IN IF sl.r = 0 /\ sr.r = 0
            THEN [h |-> sr.h, r |-> root]
            ELSE make_shared(sr.h,
                    NodeBinary(n.type,
                               IF sl.r # 0 THEN sl.r ELSE n.left,
                               IF sr.r # 0 THEN sr.r ELSE n.right))

\* Mutation: an interior node is rewired in place instead of rebuilt.
substituteInPlace(h, root, variable, value) ==
    LET n == h[root] IN
    IF n.type = "VARIABLE" /\ n.variable = variable
    THEN [h |-> h, r |-> value]
    ELSE LET sl == IF n.left # 0 THEN substitute(h, n.left, variable, value)
                   ELSE [h |-> h, r |-> 0]
             sr == IF n.right # 0 THEN substitute(sl.h, n.right, variable, value)
                   ELSE [h |-> sl.h, r |-> 0]
         IN IF sl.r = 0 /\ sr.r = 0
            THEN [h |-> sr.h, r |-> root]
            ELSE [h |-> [sr.h EXCEPT ![root].left = IF sl.r # 0 THEN sl.r ELSE n.left,
                                     ![root].right = IF sr.r # 0 THEN sr.r ELSE n.right],
                  r |-> root]

substitute(h, root, variable, value) ==
    LET n == h[root] IN
    IF n.type = "VARIABLE" /\ n.variable = variable
    THEN [h |-> h, r |-> value]
    ELSE LET sl == IF n.left # 0 THEN substitute(h, n.left, variable, value)
                   ELSE [h |-> h, r |-> 0]
             newLeft == sl.r
             sr == IF n.right # 0 THEN substitute(sl.h, n.right, variable, value)
                   ELSE [h |-> sl.h, r |-> 0]
             newRight == sr.r
         IN IF newLeft = 0 /\ newRight = 0
            THEN [h |-> sr.h, r |-> root]
            ELSE make_shared(sr.h,
                    NodeBinary(n.type,
                               IF newLeft # 0 THEN newLeft ELSE n.left,
                               IF newRight # 0 THEN newRight ELSE n.right))

\* ------------------------------------------------------------------ toString
Digit(d) ==
    CASE d = 0 -> "0" [] d = 1 -> "1" [] d = 2 -> "2" [] d = 3 -> "3" [] d = 4 -> "4"
      [] d = 5 -> "5" [] d = 6 -> "6" [] d = 7 -> "7" [] d = 8 -> "8" [] d = 9 -> "9"

RECURSIVE Digits(_)
Digits(n) == IF n < 10 THEN Digit(n) ELSE Digits(n \div 10) \o Digit(n % 10)

\* ostream << double for an integer value below 10^6 (no exponent form).
Decimal(n) == IF n < 0 THEN "-" \o Digits(-n) ELSE Digits(n)

\* stringstream << T: a double prints its digits, a std::complex<double>
\* prints "(re,im)".  A value kept as a term prints digits the model does
\* not compute.
Format(s) ==
    IF ~IsNum(s) THEN "#" \o s.k
    ELSE IF T = "double" THEN Decimal(s.re)
    ELSE "(" \o Decimal(s.re) \o "," \o Decimal(s.im) \o ")"

\* Mutation: the operands are joined without the enclosing parentheses.
Unparenthesized(l, op, r) == l \o op \o r

\* "(" + left + op + right + ")"
Parenthesized(l, op, r) == "(" \o l \o op \o r \o ")"

RECURSIVE toString(_, _)
toString(h, root) ==
    LET n == h[root] IN
    CASE n.type = "CONSTANT" -> Format(n.value)
      [] n.type = "VARIABLE" -> n.variable
      [] n.type = "ADD" ->
            Parenthesized(toString(h, n.left), " + ", toString(h, n.right))
      [] n.type = "SUBTRACT" ->
            Parenthesized(toString(h, n.left), " - ", toString(h, n.right))
      [] n.type = "MULTIPLY" ->
            Parenthesized(toString(h, n.left), " * ", toString(h, n.right))
      [] n.type = "DIVIDE" ->
            Parenthesized(toString(h, n.left), " / ", toString(h, n.right))
      [] n.type = "POWER" ->
            "pow(" \o toString(h, n.left) \o ", " \o toString(h, n.right) \o ")"
      [] n.type = "SIN" -> "sin(" \o toString(h, n.left) \o ")"
      [] n.type = "COS" -> "cos(" \o toString(h, n.left) \o ")"
      [] n.type = "EXP" -> "exp(" \o toString(h, n.left) \o ")"
      [] n.type = "LOG" -> "log(" \o toString(h, n.left) \o ")"
      [] n.type = "NEGATE" -> "-(" \o toString(h, n.left) \o ")"
      [] OTHER -> ""

\* ------------------------------------------------------------------- actions
\* The record of the last call: its receiver and arguments, and what it
\* returned or threw.
NoCall ==
    [op |-> "none", this |-> 0, other |-> 0, variable |-> "", variables |-> EmptyMap,
     ok |-> TRUE, err |-> "", root |-> 0, val |-> TOf(0), str |-> "", flag |-> FALSE]

Roots == 1..Len(nodes)

\* The caller is between two calls: it holds no unconsumed result.
Idle == last.op = "none"

CanBuild == Idle /\ Len(nodes) < MaxNodes

CanCall == Idle /\ Len(nodes) >= 1 /\ Len(nodes) <= MaxNodes

\* The builders all end in make_shared of one node and return its handle.
Built(op, this, other, n) ==
    LET a == make_shared(nodes, n) IN
    /\ nodes' = a.h
    /\ last' = [NoCall EXCEPT !.op = op, !.this = this, !.other = other, !.root = a.r]
    /\ UNCHANGED T

Init ==
    /\ T \in ScalarTypes
    /\ nodes = <<>>
    /\ last = NoCall

\* Expression()
NewZero ==
    /\ CanBuild
    /\ Built("Expression()", 0, 0, NodeValue("CONSTANT", TOf(0)))

\* Expression(T value)
NewConstant ==
    /\ CanBuild
    /\ \E c \in CtorInts : Built("Expression(value)", 0, 0, NodeValue("CONSTANT", TOf(c)))

\* Expression(const string& variable)
NewVariable ==
    /\ CanBuild
    /\ \E v \in Names : Built("Expression(variable)", 0, 0, NodeVariable("VARIABLE", v))

OperatorPlus ==
    /\ CanBuild
    /\ \E a \in Roots, b \in Roots : Built("operator+", a, b, NodeBinary("ADD", a, b))

OperatorMinus ==
    /\ CanBuild
    /\ \E a \in Roots, b \in Roots : Built("operator-", a, b, NodeBinary("SUBTRACT", a, b))

OperatorTimes ==
    /\ CanBuild
    /\ \E a \in Roots, b \in Roots : Built("operator*", a, b, NodeBinary("MULTIPLY", a, b))

OperatorDivide ==
    /\ CanBuild
    /\ \E a \in Roots, b \in Roots : Built("operator/", a, b, NodeBinary("DIVIDE", a, b))

OperatorNegate ==
    /\ CanBuild
    /\ \E a \in Roots : Built("operator-()", a, 0, NodeUnary("NEGATE", a))

Sin ==
    /\ CanBuild
    /\ \E a \in Roots : Built("sin", a, 0, NodeUnary("SIN", a))

Cos ==
    /\ CanBuild
    /\ \E a \in Roots : Built("cos", a, 0, NodeUnary("COS", a))

Exp ==
    /\ CanBuild
    /\ \E a \in Roots : Built("exp", a, 0, NodeUnary("EXP", a))

Log ==
    /\ CanBuild
    /\ \E a \in Roots : Built("log", a, 0, NodeUnary("LOG", a))

Pow ==
    /\ CanBuild
    /\ \E a \in Roots, b \in Roots : Built("pow", a, b, NodeBinary("POWER", a, b))

\* pow(base, T exponent): Expression<T>(exponent), then Expression<T>::pow.
PowScalar ==
    /\ CanBuild
    /\ \E a \in Roots, c \in CtorInts :
          LET e == make_shared(nodes, NodeValue("CONSTANT", TOf(c)))
              p == make_shared(e.h, NodeBinary("POWER", a, e.r))
          IN /\ nodes' = p.h
             /\ last' = [NoCall EXCEPT !.op = "pow(base,T)", !.this = a, !.other = e.r,
                                       !.root = p.r]
             /\ UNCHANGED T

\* The maps evaluate is called with.
Bindings == UNION {[S -> {TOf(c) : c \in BindInts}] : S \in SUBSET Names}

\* T evaluate(const map<string, T>& variables) const
Evaluate ==
    /\ CanCall
    /\ \E this \in Roots, variables \in Bindings :
          LET e == evaluate(nodes, this, variables) IN
          last' = [NoCall EXCEPT !.op = "evaluate", !.this = this,
                                 !.variables = variables, !.ok = e.ok, !.err = e.err,
                                 !.val = e.val]
    /\ UNCHANGED <<T, nodes>>

\* Expression derivative(const string& variable) const
Derivative ==
    /\ CanCall
    /\ \E this \in Roots, variable \in Names :
          LET d == derivative(nodes, this, variable) IN
          /\ nodes' = IF d.ok THEN d.h ELSE nodes
          /\ last' = [NoCall EXCEPT !.op = "derivative", !.this = this,
                                    !.variable = variable, !.ok = d.ok, !.err = d.err,
                                    !.root = d.r]
    /\ UNCHANGED T

\* Expression substitute(const string& variable, const Expression& value) const
Substitute ==
    /\ CanCall
    /\ \E this \in Roots, variable \in Names, value \in Roots :
          LET s == substitute(nodes, this, variable, value) IN
          /\ nodes' = s.h
          /\ last' = [NoCall EXCEPT !.op = "substitute", !.this = this,
                                    !.variable = variable, !.other = value,
                                    !.root = s.r]
    /\ UNCHANGED T

\* string toString() const
ToString ==
    /\ CanCall
    /\ \E this \in Roots :
          last' = [NoCall EXCEPT !.op = "toString", !.this = this,
                                 !.str = toString(nodes, this)]
    /\ UNCHANGED <<T, nodes>>

\* bool isConstant() const
IsConstant ==
    /\ CanCall
    /\ \E this \in Roots :
          last' = [NoCall EXCEPT !.op = "isConstant", !.this = this,
                                 !.flag = isConstant(nodes, this)]
    /\ UNCHANGED <<T, nodes>>

\* bool isVariable() const
IsVariable ==
    /\ CanCall
    /\ \E this \in Roots :
          last' = [NoCall EXCEPT !.op = "isVariable", !.this = this,
                                 !.flag = isVariable(nodes, this)]
    /\ UNCHANGED <<T, nodes>>

\* bool isVariable(const string& var) const
IsVariableNamed ==
    /\ CanCall
    /\ \E this \in Roots, var \in Names :
          last' = [NoCall EXCEPT !.op = "isVariable(var)", !.this = this,
                                 !.variable = var,
                                 !.flag = isVariableNamed(nodes, this, var)]
    /\ UNCHANGED <<T, nodes>>

\* The caller consumes what the call returned (or catches what it threw) and
\* goes on; the nodes stay owned by the handles it keeps.
Resume ==
    /\ ~Idle
    /\ last' = NoCall
    /\ UNCHANGED <<T, nodes>>

Next ==
    \/ NewZero \/ NewConstant \/ NewVariable
    \/ OperatorPlus \/ OperatorMinus \/ OperatorTimes \/ OperatorDivide \/ OperatorNegate
    \/ Sin \/ Cos \/ Exp \/ Log \/ Pow \/ PowScalar
    \/ Evaluate \/ Derivative \/ Substitute
    \/ ToString \/ IsConstant \/ IsVariable \/ IsVariableNamed
    \/ Resume

Spec == Init /\ [][Next]_vars
\* ------------------------------------------------------------ reading trees
\* The nodes of the tree rooted at `root` (the root and all it reaches).
RECURSIVE Reach(_, _)
Reach(h, root) ==
    {root} \cup (IF h[root].left # 0 THEN Reach(h, h[root].left) ELSE {})
           \cup (IF h[root].right # 0 THEN Reach(h, h[root].right) ELSE {})

VariableLeaves(h, root) == {j \in Reach(h, root) : h[j].type = "VARIABLE"}

VariableNames(h, root) == {h[j].variable : j \in VariableLeaves(h, root)}

\* A Power node of the tree whose exponent subtree has a Variable leaf.
HasNonConstantExponent(h, root) ==
    \E j \in Reach(h, root) :
        h[j].type = "POWER" /\ VariableLeaves(h, h[j].right) # {}

\* ------------------------------------------------------------------- claims
\* C1: evaluate throws "Undefined variable" exactly when the tree has a
\* Variable leaf whose name is no key of the map, and returns a scalar
\* otherwise; a bound Variable leaf returns its binding and a Constant leaf
\* returns its value under any map.
C1_EvaluateThrowsIffUnbound ==
    last.op = "evaluate" =>
        LET n == nodes[last.this]
            unbound == VariableNames(nodes, last.this) \ DOMAIN last.variables
        IN /\ (~last.ok) <=> (unbound # {})
           /\ ~last.ok => last.err = "Undefined variable"
           /\ (n.type = "VARIABLE" /\ n.variable \in DOMAIN last.variables)
                 => last.ok /\ last.val = last.variables[n.variable]
           /\ n.type = "CONSTANT" => last.ok /\ last.val = n.value
           /\ (VariableLeaves(nodes, last.this) = {}) => last.ok

\* C1 witness: an interior node evaluated under a non-empty map that binds
\* one of its two names and not the other.
C1_Witness ==
    /\ last.op = "evaluate"
    /\ ~last.ok
    /\ nodes[last.this].type \in BinaryTypes
    /\ DOMAIN last.variables # {}
    /\ VariableNames(nodes, last.this) \cap DOMAIN last.variables # {}

\* C2: derivative throws exactly when the tree has a Power node whose
\* exponent subtree has a Variable leaf, wherever that node sits and whatever
\* the differentiation variable; what it throws is the "not implemented"
\* error, never "Undefined variable", and it returns no node.
C2_DerivativeThrowsIffNonConstantExponent ==
    last.op = "derivative" =>
        /\ (~last.ok) <=> HasNonConstantExponent(nodes, last.this)
        /\ ~last.ok => last.err = NotImplemented /\ last.root = 0
        /\ last.ok => last.root \in DOMAIN nodes /\ last.err = ""

\* C2 witness: the call threw for a Power node below the root whose exponent
\* does not mention the differentiation variable.
C2_Witness ==
    /\ last.op = "derivative"
    /\ ~last.ok
    /\ nodes[last.this].type # "POWER"
    /\ \A j \in Reach(nodes, last.this) :
          nodes[j].type = "POWER" => last.variable \notin VariableNames(nodes, nodes[j].right)

\* C9: isConstant is true of a Constant leaf, false of a Variable leaf, and of
\* an interior node true exactly when every child is constant, that is when
\* the tree has no Variable leaf; isVariable() is true exactly of a Variable
\* leaf and isVariable(var) exactly of a Variable leaf named var.
C9_PredicatesMatchStructure ==
    LET n == nodes[last.this] IN
    /\ last.op = "isConstant" =>
          /\ last.flag <=> (VariableLeaves(nodes, last.this) = {})
          /\ n.type = "CONSTANT" => last.flag
          /\ n.type = "VARIABLE" => ~last.flag
          /\ n.type \in BinaryTypes =>
                (last.flag <=> (isConstant(nodes, n.left) /\ isConstant(nodes, n.right)))
          /\ n.type \in UnaryTypes => (last.flag <=> isConstant(nodes, n.left))
    /\ last.op = "isVariable" => (last.flag <=> n.type = "VARIABLE")
    /\ last.op = "isVariable(var)" =>
          (last.flag <=> (n.type = "VARIABLE" /\ n.variable = last.variable))

\* C9 witness: isConstant answered false for a binary node with one constant
\* child and one child that is not.
C9_Witness ==
    /\ last.op = "isConstant"
    /\ ~last.flag
    /\ nodes[last.this].type \in BinaryTypes
    /\ VariableLeaves(nodes, nodes[last.this].left) = {}
    /\ VariableLeaves(nodes, nodes[last.this].right) # {}
\* The leaf at `orig` is a Variable leaf named v.
Matches(h, orig, v) == h[orig].type = "VARIABLE" /\ h[orig].variable = v

\* Walking the original tree and the result in step: every subtree of the
\* original without a leaf named v is the same node in the result.
RECURSIVE UnaffectedShared(_, _, _, _)
UnaffectedShared(h, orig, res, v) ==
    IF v \notin VariableNames(h, orig) THEN res = orig
    ELSE IF Matches(h, orig, v) THEN TRUE
    ELSE /\ res # 0
         /\ h[res].type = h[orig].type
         /\ UnaffectedShared(h, h[orig].left, h[res].left, v)
         /\ h[orig].right # 0 => UnaffectedShared(h, h[orig].right, h[res].right, v)

\* C3: after substitute, every subtree of the receiver without a Variable
\* leaf named `variable` is the identical node in the result; an interior
\* node none of whose children changed is returned itself.
C3_UnaffectedSubtreesShared ==
    last.op = "substitute" =>
        UnaffectedShared(nodes, last.this, last.root, last.variable)

\* Walking the original tree and the result in step: the result has the
\* replacement's root where the original has a leaf named v, the very same
\* leaf where the original has any other leaf, and a node of the same type
\* and arity where the original has an interior node.
RECURSIVE LeavesPlaced(_, _, _, _, _)
LeavesPlaced(h, orig, res, v, value) ==
    IF Matches(h, orig, v) THEN res = value
    ELSE IF h[orig].left = 0 THEN res = orig
    ELSE /\ res # 0
         /\ h[res].type = h[orig].type
         /\ LeavesPlaced(h, h[orig].left, h[res].left, v, value)
         /\ IF h[orig].right = 0 THEN h[res].right = 0
            ELSE LeavesPlaced(h, h[orig].right, h[res].right, v, value)

\* C6: substitute puts the replacement's root node itself wherever the
\* receiver has a Variable leaf named `variable` and returns every other leaf
\* as the same node; substituting into the bare leaf returns the replacement's
\* root, which evaluates like the replacement under every map.
C6_ReplacementRootShared ==
    last.op = "substitute" =>
        /\ LeavesPlaced(nodes, last.this, last.root, last.variable, last.other)
        /\ Matches(nodes, last.this, last.variable) =>
              /\ last.root = last.other
              /\ \A b \in Bindings :
                    evaluate(nodes, last.root, b) = evaluate(nodes, last.other, b)

\* C6 witness: a binary node with a matching leaf on one side and another
\* leaf on the other, the replacement being an interior node.
C6_Witness ==
    /\ last.op = "substitute"
    /\ nodes[last.this].type \in BinaryTypes
    /\ Matches(nodes, nodes[last.this].left, last.variable)
    /\ nodes[nodes[last.this].right].left = 0
    /\ ~Matches(nodes, nodes[last.this].right, last.variable)
    /\ nodes[last.other].left # 0
    /\ nodes[last.root].left = last.other

\* C7: no call changes a node that exists: every node keeps its type, value,
\* variable and children across every step, also when the call throws; the
\* arena only grows.
C7_NodesNeverModified ==
    [][\A i \in DOMAIN nodes : i \in DOMAIN nodes' /\ nodes'[i] = nodes[i]]_vars

\* C7 witness: substitute rebuilt the receiver, and the receiver still has
\* the matching leaf that the result replaced.
C7_Witness ==
    /\ last.op = "substitute"
    /\ last.root # last.this
    /\ nodes[last.this].left # 0
    /\ nodes[last.root].left # nodes[last.this].left
    /\ Matches(nodes, nodes[last.this].left, last.variable)
\* ------------------------------------------------------- trees as values
\* The tree rooted at `root`, unfolded: structure without node identity.
RECURSIVE Tree(_, _)
Tree(h, root) ==
    LET n == h[root] IN
    [type |-> n.type,
     value |-> IF n.type = "CONSTANT" THEN n.value ELSE TOf(0),
     variable |-> IF n.type = "VARIABLE" THEN n.variable ELSE "",
     kids |-> IF n.left = 0 THEN <<>>
              ELSE IF n.right = 0 THEN <<Tree(h, n.left)>>
              ELSE <<Tree(h, n.left), Tree(h, n.right)>>]

Constant(a) == [type |-> "CONSTANT", value |-> a, variable |-> "", kids |-> <<>>]

Variable(v) == [type |-> "VARIABLE", value |-> TOf(0), variable |-> v, kids |-> <<>>]

Unary(t, u) == [type |-> t, value |-> TOf(0), variable |-> "", kids |-> <<u>>]

Binary(t, l, r) == [type |-> t, value |-> TOf(0), variable |-> "", kids |-> <<l, r>>]

NodeTypes(h, root) == {h[j].type : j \in Reach(h, root)}

\* The reference rewrite D of claim C4, on trees without a Power node.
RECURSIVE D(_, _)
D(t, v) ==
    CASE t.type = "CONSTANT" -> Constant(TOf(0))
      [] t.type = "VARIABLE" -> Constant(IF t.variable = v THEN TOf(1) ELSE TOf(0))
      [] t.type = "ADD" -> Binary("ADD", D(t.kids[1], v), D(t.kids[2], v))
      [] t.type = "SUBTRACT" -> Binary("SUBTRACT", D(t.kids[1], v), D(t.kids[2], v))
      [] t.type = "MULTIPLY" ->
            Binary("ADD", Binary("MULTIPLY", D(t.kids[1], v), t.kids[2]),
                          Binary("MULTIPLY", t.kids[1], D(t.kids[2], v)))
      [] t.type = "DIVIDE" ->
            Binary("DIVIDE",
                   Binary("SUBTRACT", Binary("MULTIPLY", D(t.kids[1], v), t.kids[2]),
                                      Binary("MULTIPLY", t.kids[1], D(t.kids[2], v))),
                   Binary("POWER", t.kids[2], Constant(TOf(2))))
      [] t.type = "SIN" -> Binary("MULTIPLY", Unary("COS", t.kids[1]), D(t.kids[1], v))
      [] t.type = "COS" ->
            Binary("MULTIPLY", Unary("NEGATE", Unary("SIN", t.kids[1])), D(t.kids[1], v))
      [] t.type = "EXP" -> Binary("MULTIPLY", Unary("EXP", t.kids[1]), D(t.kids[1], v))
      [] t.type = "LOG" -> Binary("DIVIDE", D(t.kids[1], v), t.kids[1])
      [] t.type = "NEGATE" -> Unary("NEGATE", D(t.kids[1], v))

PolynomialTypes == {"CONSTANT", "VARIABLE", "ADD", "SUBTRACT", "MULTIPLY"}

\* The maps that bind every name.
TotalBindings == {b \in Bindings : DOMAIN b = Names}

\* C4: on a tree without a Power node derivative succeeds and its result is
\* structurally the reference rewrite D, unsimplified; so for polynomial u and
\* w the derivative of Multiply(u, w) evaluates under every map that binds
\* all names to du*w + u*dw.
C4_DerivativeIsReferenceRewrite ==
    (last.op = "derivative" /\ "POWER" \notin NodeTypes(nodes, last.this)) =>
        LET n == nodes[last.this] IN
        /\ last.ok
        /\ Tree(nodes, last.root) = D(Tree(nodes, last.this), last.variable)
        /\ (n.type = "MULTIPLY" /\ NodeTypes(nodes, last.this) \subseteq PolynomialTypes) =>
              LET du == derivative(nodes, n.left, last.variable)
                  dw == derivative(nodes, n.right, last.variable)
              IN \A b \in TotalBindings :
                    evaluate(nodes, last.root, b).val =
                        SAdd(SMul(evaluate(du.h, du.r, b).val, evaluate(nodes, n.right, b).val),
                             SMul(evaluate(nodes, n.left, b).val, evaluate(dw.h, dw.r, b).val))

\* C4 witness: the derivative of a product of a variable and a sum, taken
\* with respect to a variable that occurs in it.
C4_Witness ==
    /\ last.op = "derivative"
    /\ last.ok
    /\ nodes[last.this].type = "MULTIPLY"
    /\ {nodes[nodes[last.this].left].type, nodes[nodes[last.this].right].type}
          = {"VARIABLE", "ADD"}
    /\ last.variable \in VariableNames(nodes, last.this)

\* C5: for Power(left, e) with a constant exponent e (a Constant or a compound
\* expression without variables), derivative returns
\* Multiply(Multiply(Constant n, Power(left, Constant n-1)), D(left)), n being
\* the value of e under the empty map and D(left) the derivative of left (the
\* call throws exactly when that one does); so the derivative of
\* Power(Variable x, Constant n) with respect to x evaluates at x = a to
\* n * a^(n-1).
C5_PowerRule ==
    (/\ last.op = "derivative"
     /\ nodes[last.this].type = "POWER"
     /\ VariableLeaves(nodes, nodes[last.this].right) = {}) =>
        LET left == nodes[last.this].left
            e == nodes[last.this].right
            n == evaluate(nodes, e, EmptyMap).val
            dleft == derivative(nodes, left, last.variable)
        IN /\ last.ok <=> dleft.ok
           /\ last.ok =>
                Tree(nodes, last.root) =
                    Binary("MULTIPLY",
                           Binary("MULTIPLY", Constant(n),
                                  Binary("POWER", Tree(nodes, left),
                                         Constant(SSub(n, TOf(1))))),
                           Tree(dleft.h, dleft.r))
           /\ (last.ok /\ "POWER" \notin NodeTypes(nodes, left)) =>
                Tree(dleft.h, dleft.r) = D(Tree(nodes, left), last.variable)
           /\ (nodes[left].type = "VARIABLE" /\ nodes[left].variable = last.variable
                 /\ nodes[e].type = "CONSTANT") =>
                \A a \in BindInts \cup CtorInts :
                    evaluate(nodes, last.root, [q \in {last.variable} |-> TOf(a)]).val
                        = SMul(n, SPow(TOf(a), SSub(n, TOf(1))))

\* C5 witness: Power(Variable x, Constant 2) differentiated by x.
C5_Witness ==
    /\ last.op = "derivative"
    /\ last.ok
    /\ nodes[last.this].type = "POWER"
    /\ nodes[nodes[last.this].left].type = "VARIABLE"
    /\ nodes[nodes[last.this].left].variable = last.variable
    /\ nodes[nodes[last.this].right].type = "CONSTANT"
    /\ nodes[nodes[last.this].right].value = TOf(2)

\* Names a derivative may be taken by: those of the leaves and a fresh one.
DerivativeNames == Names \cup {"z"}

\* C8: when derivative succeeds with result d, derivative of d succeeds for
\* every variable name, and so does the derivative of that result; every
\* variable name in d occurs in the receiver, so d evaluates without
\* "Undefined variable" under every map under which the receiver does.
C8_DerivativeComposes ==
    (last.op = "derivative" /\ last.ok) =>
        /\ \A w \in DerivativeNames :
              LET d2 == derivative(nodes, last.root, w) IN
              /\ d2.ok
              /\ \A w2 \in DerivativeNames : derivative(d2.h, d2.r, w2).ok
        /\ VariableNames(nodes, last.root) \subseteq VariableNames(nodes, last.this)
        /\ \A b \in Bindings :
              evaluate(nodes, last.this, b).ok => evaluate(nodes, last.root, b).ok

\* C8 witness: the receiver is a quotient with a variable in its divisor, so
\* the result has a new Power node over a non-constant base.
C8_Witness ==
    /\ last.op = "derivative"
    /\ last.ok
    /\ nodes[last.this].type = "DIVIDE"
    /\ VariableLeaves(nodes, nodes[last.this].right) # {}
\* The rendering claim C10 describes, on trees as values.
OperatorSymbol(t) ==
    CASE t = "ADD" -> "+" [] t = "SUBTRACT" -> "-" [] t = "MULTIPLY" -> "*"
      [] t = "DIVIDE" -> "/"

FunctionName(t) ==
    CASE t = "SIN" -> "sin" [] t = "COS" -> "cos" [] t = "EXP" -> "exp" [] t = "LOG" -> "log"

RECURSIVE Rendering(_)
Rendering(t) ==
    CASE t.type = "CONSTANT" -> Format(t.value)
      [] t.type = "VARIABLE" -> t.variable
      [] t.type \in {"ADD", "SUBTRACT", "MULTIPLY", "DIVIDE"} ->
            "(" \o Rendering(t.kids[1]) \o " " \o OperatorSymbol(t.type) \o " "
                \o Rendering(t.kids[2]) \o ")"
      [] t.type = "POWER" ->
            "pow(" \o Rendering(t.kids[1]) \o ", " \o Rendering(t.kids[2]) \o ")"
      [] t.type \in {"SIN", "COS", "EXP", "LOG"} ->
            FunctionName(t.type) \o "(" \o Rendering(t.kids[1]) \o ")"
      [] t.type = "NEGATE" -> "-(" \o Rendering(t.kids[1]) \o ")"

OnePlusX == Binary("ADD", Constant(TOf(1)), Variable("x"))

\* C10 as stated: toString is the structural rendering, every binary
\* arithmetic node in its own parentheses, and Add(Constant(1), Variable("x"))
\* renders exactly as "(1 + x)".
C10_AsStated ==
    last.op = "toString" =>
        /\ last.str = Rendering(Tree(nodes, last.this))
        /\ Tree(nodes, last.this) = OnePlusX => last.str = "(1 + x)"

\* C10 amended: toString is the structural rendering, every binary arithmetic
\* node in its own parentheses; Add(Constant(1), Variable("x")) renders
\* exactly as "(1 + x)" over double and as "((1,0) + x)" over
\* complex<double>, whose constants print as "(re,im)".
C10_StructuralRendering ==
    last.op = "toString" =>
        /\ last.str = Rendering(Tree(nodes, last.this))
        /\ Tree(nodes, last.this) = OnePlusX =>
              last.str = IF T = "double" THEN "(1 + x)" ELSE "((1,0) + x)"

\* C10 witness: Add(Constant(1), Variable("x")) rendered over double.
C10_Witness ==
    /\ last.op = "toString"
    /\ T = "double"
    /\ Tree(nodes, last.this) = OnePlusX
    /\ last.str = "(1 + x)"

\* The map b with `variable` rebound to the scalar val.
Rebound(b, variable, val) ==
    [q \in DOMAIN b \cup {variable} |-> IF q = variable THEN val ELSE b[q]]

\* C11: substitution agrees with evaluation.  After t.substitute(v, r) has
\* returned s, for every map b under which r evaluates, evaluating s under b
\* gives what evaluating t gives under b with v rebound to the value of r
\* (the same value, or the same failure where another variable of t is
\* unbound); and when t has a leaf named v, the leaves of r named v are nodes
\* of s: the pass did not descend into r.
C11_SubstituteAgreesWithEvaluate ==
    (last.op = "substitute") =>
        /\ \A b \in Bindings :
              LET er == evaluate(nodes, last.other, b) IN
              er.ok =>
                  evaluate(nodes, last.root, b)
                    = evaluate(nodes, last.this, Rebound(b, last.variable, er.val))
        /\ (last.variable \in VariableNames(nodes, last.this)) =>
              VariableLeaves(nodes, last.other) \subseteq VariableLeaves(nodes, last.root)

\* C11 witness: t and r are interior nodes that both have a leaf named v,
\* and under some map r evaluates to another value than the one v is bound to.
C11_Witness ==
    /\ last.op = "substitute"
    /\ nodes[last.this].left # 0
    /\ nodes[last.other].left # 0
    /\ last.variable \in VariableNames(nodes, last.this)
    /\ last.variable \in VariableNames(nodes, last.other)
    /\ \E b \in Bindings :
          /\ last.variable \in DOMAIN b
          /\ evaluate(nodes, last.other, b).ok
          /\ evaluate(nodes, last.other, b).val # b[last.variable]
          /\ evaluate(nodes, last.root, b).ok

\* Node i of the arena has the children its kind takes, each created before
\* it (a lower address in the arena).
WellFormed(h, i) ==
    LET n == h[i] IN
    /\ n.type \in {"CONSTANT", "VARIABLE"} \cup UnaryTypes \cup BinaryTypes
    /\ n.type \in {"CONSTANT", "VARIABLE"} => (n.left = 0 /\ n.right = 0)
    /\ n.type \in UnaryTypes => (n.left \in 1..(i - 1) /\ n.right = 0)
    /\ n.type \in BinaryTypes => (n.left \in 1..(i - 1) /\ n.right \in 1..(i - 1))

\* C12: in every reachable state every node is well-formed and every child
\* is older than its parent, so the node graph is acyclic; the node
\* substitute rebuilds for an interior receiver has the receiver's kind and
\* arity.
C12_NodesWellFormed ==
    /\ \A i \in DOMAIN nodes : WellFormed(nodes, i)
    /\ (last.op = "substitute" /\ nodes[last.this].left # 0) =>
          /\ nodes[last.root].type = nodes[last.this].type
          /\ (nodes[last.root].right = 0) = (nodes[last.this].right = 0)

\* C12 witness: substitute has rebuilt a binary receiver over a unary node
\* it also rebuilt; the rebuilt root is the newest node of the arena.
C12_Witness ==
    /\ last.op = "substitute"
    /\ last.root = Len(nodes)
    /\ last.root > last.this
    /\ nodes[last.this].type \in BinaryTypes
    /\ \E j \in Reach(nodes, last.root) :
          j > last.this /\ nodes[j].type \in UnaryTypes

====
